---- MODULE Spec2Model ----
(***************************************************************************)
(* One request to POST /api/v1/process-pdf: the upload is read, validated  *)
(* and rasterized by PDFProcessor, every page is sent to the completion    *)
(* service by OpenAIClient.process_batch under an asyncio.Semaphore, and   *)
(* process_pdf assembles the PDFProcessResponse.                           *)
(***************************************************************************)
EXTENDS Integers, Sequences, FiniteSets, TLC

\* ------------------------------------------------------------------ bounds
\* Largest page count of an uploaded document.
MaxPages == 3
\* Largest configured value of settings.max_concurrent_requests.
MaxConcurrent == 2
\* Largest page count of a document whose batch is timed.
TimedMaxPages == 5
\* The time units one call to the completion service takes when every call
\* takes the same time.
Latency == 1

\* ------------------------------------------------------- program constants
\* settings.max_file_size: 50 MB.
max_file_size == 50 * 1024 * 1024

\* ------------------------------------------------------------ value helpers
None == "None"

\* Python truthiness of an Optional[str]: None and "" are falsy.
Truthy(s) == s # None /\ s # ""

\* ------------------------------------------------------------- exceptions
\* app/utils/exceptions.py: the classes and their base classes.
Bases(cls) ==
    CASE cls = "PDFProcessingError"     -> {"PDFProcessingError", "Exception"}
      [] cls = "InvalidFileError"       -> {"InvalidFileError", "PDFProcessingError", "Exception"}
      [] cls = "FileSizeError"          -> {"FileSizeError", "PDFProcessingError", "Exception"}
      [] cls = "APICallError"           -> {"APICallError", "PDFProcessingError", "Exception"}
      [] cls = "ProcessingTimeoutError" -> {"ProcessingTimeoutError", "PDFProcessingError", "Exception"}
      [] OTHER                          -> {cls, "Exception"}

IsInstance(exc, base) == base \in Bases(exc.cls)

\* An exception object: its class and str(e).
Exc(cls, message) == [cls |-> cls, message |-> message]

NoExc == [cls |-> None, message |-> ""]

\* HTTPException(status_code, detail).
HTTPException(status, detail) ==
    [cls |-> "HTTPException", message |-> detail, status_code |-> status]

\* -------------------------------------------------------------- the upload
\* Upload file names, as character sequences.
Filenames ==
    { <<"r", ".", "p", "d", "f">>,
      <<"R", ".", "P", "d", "F">>,
      <<"r", ".", "t", "x", "t">>,
      <<"p", "d", "f">> }

\* str.lower() on one character of the alphabet used above.
LowerChar(c) ==
    CASE c = "R" -> "r"
      [] c = "P" -> "p"
      [] c = "D" -> "d"
      [] c = "F" -> "f"
      [] OTHER   -> c

\* str.lower().
Lower(s) == [i \in 1..Len(s) |-> LowerChar(s[i])]

\* str.endswith(suffix).
EndsWith(s, suffix) ==
    /\ Len(s) >= Len(suffix)
    /\ SubSeq(s, Len(s) - Len(suffix) + 1, Len(s)) = suffix

\* The documents an upload can hold: `readable` is FALSE when fitz cannot
\* open the bytes; `page_count` is the page count of a readable document
\* and `bad_page` the 1-based number of the first page whose rendering
\* raises, 0 when none does.
Documents ==
    { [len |-> l, readable |-> FALSE, page_count |-> 0, bad_page |-> 0] :
        l \in {max_file_size, max_file_size + 1} }
    \cup
    { [len |-> l, readable |-> TRUE, page_count |-> p, bad_page |-> b] :
        l \in {max_file_size, max_file_size + 1},
        p \in 0..MaxPages, b \in 0..MaxPages }

ValidDocument(d) == d.bad_page <= d.page_count

\* doc.page_count of an opened document.
PageCount(d) == d.page_count

\* ------------------------------------------------------------ PDFProcessor
\* What fitz.open does with the bytes: the exception it raises, if any.
FitzOpen(d) ==
    IF ~d.readable
        THEN Exc("FileDataError", "Failed to open stream")
        ELSE NoExc

\* validate_pdf: the exception raised (NoExc when the call returns), the
\* number of fitz.open calls made and the number of documents left open.
\* Fault variant of ValidatePdf: the size test written with >=.
ValidatePdfSizeBug(d) ==
    IF d.len >= max_file_size
        THEN [exc |-> Exc("PDFProcessingError",
                          "File size exceeds maximum allowed size of "
                              \o ToString(max_file_size) \o " bytes"),
              opens |-> 0, left_open |-> 0]
    ELSE IF FitzOpen(d) # NoExc
        THEN [exc |-> Exc("InvalidFileError",
                          "Invalid PDF file: " \o FitzOpen(d).message),
              opens |-> 1, left_open |-> 0]
    ELSE IF PageCount(d) = 0
        THEN [exc |-> Exc("InvalidFileError",
                          "Invalid PDF file: " \o "PDF file contains no pages"),
              opens |-> 1, left_open |-> 1]
    ELSE [exc |-> NoExc, opens |-> 1, left_open |-> 0]

\* Fault variant of ValidatePdf: the page_count == 0 test is missing.
ValidatePdfNoPageCheck(d) ==
    IF d.len > max_file_size
        THEN [exc |-> Exc("PDFProcessingError",
                          "File size exceeds maximum allowed size of "
                              \o ToString(max_file_size) \o " bytes"),
              opens |-> 0, left_open |-> 0]
    ELSE IF FitzOpen(d) # NoExc
        THEN [exc |-> Exc("InvalidFileError",
                          "Invalid PDF file: " \o FitzOpen(d).message),
              opens |-> 1, left_open |-> 0]
    ELSE [exc |-> NoExc, opens |-> 1, left_open |-> 0]

ValidatePdf(d) ==
    IF d.len > max_file_size
        \* raised before the try block: not rewrapped as InvalidFileError
        THEN [exc |-> Exc("PDFProcessingError",
                          "File size exceeds maximum allowed size of "
                              \o ToString(max_file_size) \o " bytes"),
              opens |-> 0, left_open |-> 0]
    ELSE IF FitzOpen(d) # NoExc
        \* fitz.open raises inside the try: except Exception rewraps it
        THEN [exc |-> Exc("InvalidFileError",
                          "Invalid PDF file: " \o FitzOpen(d).message),
              opens |-> 1, left_open |-> 0]
    ELSE IF PageCount(d) = 0
        \* InvalidFileError raised inside the try, caught by except Exception
        \* and raised again with the prefix; doc.close() is skipped
        THEN [exc |-> Exc("InvalidFileError",
                          "Invalid PDF file: " \o "PDF file contains no pages"),
              opens |-> 1, left_open |-> 1]
    ELSE [exc |-> NoExc, opens |-> 1, left_open |-> 0]

\* ProcessingMetadata of a rendered page; additional_data is None until the
\* API call adds api_processing_time to it.
PageMetadata == [processing_time |-> "render", additional_data |-> None]

\* settings.image_format by default.
DefaultImageFormat == <<"P", "N", "G">>

\* The values of settings.image_format considered: formats PIL can write,
\* in either case.
ImageFormats ==
    { <<"P", "N", "G">>, <<"p", "n", "g">>,
      <<"J", "P", "E", "G">>, <<"j", "p", "e", "g">> }

\* str.upper() on one character of the alphabet used above.
UpperChar(c) ==
    CASE c = "p" -> "P"
      [] c = "n" -> "N"
      [] c = "g" -> "G"
      [] c = "j" -> "J"
      [] c = "e" -> "E"
      [] OTHER   -> c

\* str.upper().
Upper(s) == [i \in 1..Len(s) |-> UpperChar(s[i])]

\* pil_image.save(output_buffer, format=format): the bytes of the page in
\* that encoding.
SaveImage(format) == [format |-> format, pixels |-> "page"]

\* The tuple appended to pages_data for loop index page_num (0-based).
\* Fault variant of PageRecord: the loop index is stored without the + 1.
PageRecordZeroBased(page_num, image_bytes) ==
    [page_num |-> page_num, image |-> image_bytes, metadata |-> PageMetadata]

PageRecord(page_num, image_bytes) ==
    [page_num |-> page_num + 1, image |-> image_bytes, metadata |-> PageMetadata]

\* Whether rendering loop index page_num (0-based) raises.
RenderFails(d, page_num) == d.bad_page = page_num + 1

\* The PDFProcessingError extract_pages_as_images raises for a failure e.
ExtractError(e) ==
    Exc("PDFProcessingError", "Failed to extract pages from PDF: " \o e.message)

\* ------------------------------------------------------------ OpenAIClient
\* settings.openai_timeout, in seconds.
openai_timeout == 30

\* base64.b64encode(image_data).decode("utf-8").
B64Encode(image_data) == [base64 |-> image_data]

\* The url of the image_url part of the payload (line 53).
ImageUrl(image_data) ==
    [scheme |-> "data", mime |-> "image/png", data |-> B64Encode(image_data)]

\* A Python dict as a set of <<key, value>> pairs.
EmptyDict == {}

\* What the completion service can do with one request: answer with a status
\* and a body, let the client time out, or fail at the transport level.
\* A body is a JSON object (`json` holds it), JSON of another form (an
\* array) or text that is not JSON.
CompletionBody == {<<"choices", "markdown">>}

ErrorBody == {<<"error", "quota exceeded">>}

ServiceOutcomes ==
    { [kind |-> "response", status |-> 200, form |-> "object", json |-> CompletionBody],
      [kind |-> "response", status |-> 200, form |-> "object", json |-> EmptyDict],
      [kind |-> "response", status |-> 200, form |-> "array", json |-> EmptyDict],
      [kind |-> "response", status |-> 200, form |-> "text", json |-> EmptyDict],
      [kind |-> "response", status |-> 500, form |-> "object", json |-> ErrorBody],
      [kind |-> "response", status |-> 500, form |-> "object", json |-> EmptyDict],
      [kind |-> "timeout"],
      [kind |-> "client_error", detail |-> ""] }

\* response_data.get("error", {}).get("message", "Unknown API error")
ErrorMessageOf(json) ==
    IF \E kv \in json : kv[1] = "error"
        THEN (CHOOSE kv \in json : kv[1] = "error")[2]
        ELSE "Unknown API error"

\* The try block of process_image (lines 33-114): the exception it raises,
\* or NoExc with the values it returns.
TryBody(page, o) ==
    IF o.kind = "timeout"
        THEN [exc |-> Exc("TimeoutError", "")]
    ELSE IF o.kind = "client_error"
        THEN [exc |-> Exc("ClientError", o.detail)]
    ELSE IF o.form = "text"
        \* await response.json() raises
        THEN [exc |-> Exc("JSONDecodeError", "Expecting value")]
    ELSE IF o.form # "object"
        \* response_data.get raises, whatever the status
        THEN [exc |-> Exc("AttributeError", "'list' object has no attribute 'get'")]
    ELSE IF o.status # 200
        THEN [exc |-> Exc("APICallError",
                          "OpenAI API request failed: " \o ErrorMessageOf(o.json))]
    ELSE [exc |-> NoExc,
          ret |-> [api_response |-> o.json,
                   metadata |-> [processing_time |-> "render+api",
                                 additional_data |-> "api_processing_time"]]]

\* The except clauses of process_image (lines 116-126), tried in order.
\* Fault variant of ExceptClauses: the messages carry no fixed prefix, so a
\* timeout or an exception with an empty str() yields an empty message.
ExceptClausesBare(e) ==
    IF e.cls = "TimeoutError"
        THEN Exc("APICallError", "")
    ELSE IF e.cls = "ClientError"
        THEN Exc("APICallError", e.message)
    ELSE Exc("APICallError", e.message)

ExceptClauses(e) ==
    IF e.cls = "TimeoutError"
        THEN Exc("APICallError",
                 "API request timed out after " \o ToString(openai_timeout) \o " seconds")
    ELSE IF e.cls = "ClientError"
        THEN Exc("APICallError", "Network error during API request: " \o e.message)
    ELSE Exc("APICallError", "Unexpected error during API request: " \o e.message)

\* process_image once the semaphore is held, for service outcome o.
ProcessImage(page, o) ==
    LET r == TryBody(page, o) IN
    IF r.exc = NoExc THEN r ELSE [exc |-> ExceptClauses(r.exc)]

\* _process_single_page: the task's result as asyncio.gather stores it, the
\* returned tuple or (return_exceptions=True) the exception object.
ProcessSinglePage(page, o) ==
    LET r == ProcessImage(page, o) IN
    IF r.exc = NoExc
        THEN [is_exception |-> FALSE,
              page_num |-> page.page_num,
              api_response |-> r.ret.api_response,
              metadata |-> r.ret.metadata]
        ELSE [is_exception |-> TRUE, exc |-> r.exc]

\* asyncio.Semaphore.locked(): no permit is free, or somebody waits already.
\* Fault variant of Locked: the request is sent without taking a permit.
LockedNever(value, ws) == FALSE

Locked(value, ws) == value = 0 \/ ws # <<>>

\* asyncio.gather(*tasks, return_exceptions=True): the results in the order
\* of the awaitables passed, whatever the order `order` they completed in.
\* Fault variant of Gather: the results are collected as the tasks complete
\* (asyncio.as_completed).
GatherInCompletionOrder(ts, order) ==
    [k \in 1..Len(order) |-> ts[order[k]].result]

Gather(ts, order) ==
    [i \in 1..Len(ts) |-> ts[i].result]

\* The loop of process_batch over enumerate(results) (lines 145-156).
\* Fault variant of ProcessedResults: a failure is tagged with the
\* enumerate index i (0-based) instead of pages_data[i][0].
ProcessedResultsEnumIndex(pages, results) ==
    [i \in 1..Len(results) |->
        IF results[i].is_exception
            THEN [page_num |-> i - 1,
                  api_response |-> EmptyDict,
                  metadata |-> pages[i].metadata,
                  error |-> results[i].exc.message]
            ELSE [page_num |-> results[i].page_num,
                  api_response |-> results[i].api_response,
                  metadata |-> results[i].metadata,
                  error |-> None]]

ProcessedResults(pages, results) ==
    [i \in 1..Len(results) |->
        IF results[i].is_exception
            THEN [page_num |-> pages[i].page_num,
                  api_response |-> EmptyDict,
                  metadata |-> pages[i].metadata,
                  error |-> results[i].exc.message]
            ELSE [page_num |-> results[i].page_num,
                  api_response |-> results[i].api_response,
                  metadata |-> results[i].metadata,
                  error |-> None]]

\* Leaving `async with self.semaphore` (by return or by exception) releases
\* the permit: it goes to the first waiter, or back to the counter.
\* The new counter value for a task that leaves by return
\* (failed = FALSE) or by exception (failed = TRUE).
ValueAfterExit(value, ws, failed) ==
    IF ws # <<>> THEN value ELSE value + 1

\* The waiter, if any, that is handed the permit by that exit.
\* Fault variant of WokenAfterExit: the permit is released on the return path
\* only, an exception leaves without waking a waiter.
WokenAfterExitKeepOnError(value, ws, failed) ==
    IF failed \/ ws = <<>> THEN {} ELSE {Head(ws)}

WokenAfterExit(value, ws, failed) ==
    IF ws = <<>> THEN {} ELSE {Head(ws)}

\* process_batch from the return of gather on: the exception it raises
\* (never one) and the list it returns.
\* Fault variant of ProcessBatch: gather without return_exceptions=True, the
\* first exception propagates out of process_batch.
ProcessBatchPropagates(pages, ts, order) ==
    LET results == Gather(ts, order) IN
    IF \E i \in 1..Len(results) : results[i].is_exception
        THEN [exc |-> results[CHOOSE i \in 1..Len(results) :
                                 /\ results[i].is_exception
                                 /\ \A j \in 1..(i - 1) : ~results[j].is_exception].exc,
              ret |-> <<>>]
        ELSE [exc |-> NoExc, ret |-> ProcessedResults(pages, results)]

ProcessBatch(pages, ts, order) ==
    [exc |-> NoExc, ret |-> ProcessedResults(pages, Gather(ts, order))]

\* ---------------------------------------------------- endpoint process_pdf
\* `if error:` (line 77).
\* Fault variant of IsFailure: the error element of the tuple is ignored.
IsFailureNever(r) == FALSE

IsFailure(r) == Truthy(r.error)

\* The errors list built by the loop (lines 76-79).
ErrorList(api_results) ==
    LET failed == SelectSeq(api_results, IsFailure) IN
    [k \in 1..Len(failed) |->
        "Page " \o ToString(failed[k].page_num) \o ": " \o failed[k].error]

\* The results list built by the loop (lines 76-95).
PageResults(api_results) ==
    [i \in 1..Len(api_results) |->
        IF IsFailure(api_results[i])
            THEN [page_number |-> api_results[i].page_num,
                  processed_output |-> EmptyDict,
                  metadata |-> api_results[i].metadata,
                  error |-> api_results[i].error]
            ELSE [page_number |-> api_results[i].page_num,
                  processed_output |-> api_results[i].api_response,
                  metadata |-> api_results[i].metadata,
                  error |-> None]]

\* processed_count after the loop (lines 75, 89).
\* Fault variant of ProcessedCount: every entry is counted.
ProcessedCountAll(api_results) == Len(api_results)

ProcessedCount(api_results) ==
    Len(api_results) - Len(SelectSeq(api_results, IsFailure))

\* An Optional[List[str]].
NoneList == [is_none |-> TRUE, list |-> <<>>]

SomeList(l) == [is_none |-> FALSE, list |-> l]

\* The PDFProcessResponse returned (lines 108-115).
\* Fault variant of BuildResponse: `errors=errors`, an empty list included.
BuildResponseEmptyList(pages, api_results) ==
    LET errors == ErrorList(api_results) IN
    [kind |-> "report",
     success |-> Len(errors) = 0,
     total_pages |-> Len(pages),
     processed_pages |-> ProcessedCount(api_results),
     results |-> PageResults(api_results),
     errors |-> SomeList(errors)]

BuildResponse(pages, api_results) ==
    LET errors == ErrorList(api_results) IN
    [kind |-> "report",
     success |-> Len(errors) = 0,
     total_pages |-> Len(pages),
     processed_pages |-> ProcessedCount(api_results),
     results |-> PageResults(api_results),
     errors |-> IF errors # <<>> THEN SomeList(errors) ELSE NoneList]

\* create_http_exception(e): status 400, detail {"error", "details"}.
CreateHttpException(e) ==
    [kind |-> "http_error", status_code |-> 400,
     detail |-> [is_dict |-> TRUE, error |-> e.message, details |-> None]]

\* The except clauses of process_pdf (lines 117-125) for an exception e
\* raised inside its try block.
\* Fault variant of EndpointError: the 500 response carries str(e).
EndpointErrorLeaks(e) ==
    IF IsInstance(e, "PDFProcessingError")
        THEN CreateHttpException(e)
        ELSE [kind |-> "http_error", status_code |-> 500,
              detail |-> [is_dict |-> FALSE, text |-> e.message]]

EndpointError(e) ==
    IF IsInstance(e, "PDFProcessingError")
        THEN CreateHttpException(e)
        ELSE [kind |-> "http_error", status_code |-> 500,
              detail |-> [is_dict |-> FALSE,
                          text |-> "Internal server error occurred during processing"]]

NoResponse == [kind |-> "none"]

\* ------------------------------------------------------------------- state
VARIABLES
    pc,                       \* where process_pdf stands
    filename,                 \* file.filename of the upload
    upload,                   \* the uploaded document (file.file)
    max_concurrent_requests,  \* settings.max_concurrent_requests
    tmp_files,                \* temporary files that exist on disk
    content,                  \* the bytes read back by _read_file_async
    opens,                    \* fitz.open calls made so far
    open_docs,                \* fitz documents opened and not closed
    renders,                  \* page.get_pixmap calls made so far
    page_num,                 \* loop variable of extract_pages_as_images
    pages_local,              \* pages_data inside extract_pages_as_images
    pages_data,               \* pages_data in process_pdf
    sem_value,                \* the semaphore's counter
    waiters,                  \* tasks waiting for the semaphore, in order
    tasks,                    \* the page tasks of process_batch
    completed,                \* task numbers in the order they completed
    api_results,              \* the list process_batch returned
    response,                 \* the HTTP response of the request
    raised,                   \* the exception process_pdf caught, if any
    image_format,             \* settings.image_format
    other,                    \* a second request in progress: its client and tasks
    clock                     \* time since process_batch began, when it is measured

vars ==
    <<pc, filename, upload, max_concurrent_requests, tmp_files, content,
      opens, open_docs, renders, page_num, pages_local, pages_data,
      sem_value, waiters, tasks, completed, api_results, response, raised,
      image_format, other, clock>>

outVars == <<response, raised>>

\* What the steps of this request read and never write: its inputs, the
\* settings, and the state of the other request.
inputVars ==
    <<filename, upload, max_concurrent_requests, image_format, other, clock>>

readVars == <<tmp_files, content>>

extractVars == <<renders, page_num, pages_local, pages_data>>

batchVars == <<sem_value, waiters, tasks, completed, api_results>>

\* content before the upload is read.
NoContent == [len |-> -1, readable |-> FALSE, page_count |-> 0, bad_page |-> 0]

DotPdf == <<".", "p", "d", "f">>

\* A task before it has a result.
NoResult == [is_exception |-> FALSE, pending |-> TRUE]

NewTask == [pc |-> "created", outcome |-> [kind |-> "none"], result |-> NoResult]

\* Tasks that hold a permit of the semaphore.
InFlight == {i \in 1..Len(tasks) : tasks[i].pc = "inflight"}

\* No second request.
NoOther == [sem_value |-> 0, waiters |-> <<>>, tasks |-> <<>>]

\* The clock at the start: `now` is the time passed, `due` holds <<i, t>>
\* when the answer to the call of task i arrives at time t, `peak` is the
\* largest number of calls that were in flight together.
ClockAtStart == [now |-> 0, due |-> {}, peak |-> 0]

\* The state when the request reaches process_pdf: the dependencies are
\* built (OpenAIClient.__init__ creates the semaphore), nothing has run.
RequestInit ==
    /\ pc = "check_filename"
    /\ filename \in Filenames
    /\ upload \in {d \in Documents : ValidDocument(d)}
    /\ max_concurrent_requests \in 1..MaxConcurrent
    /\ tmp_files = 0
    /\ content = NoContent
    /\ opens = 0
    /\ open_docs = 0
    /\ renders = 0
    /\ page_num = 0
    /\ pages_local = <<>>
    /\ pages_data = <<>>
    /\ sem_value = max_concurrent_requests
    /\ waiters = <<>>
    /\ tasks = <<>>
    /\ completed = <<>>
    /\ api_results = <<>>
    /\ response = NoResponse
    /\ raised = NoExc
    /\ clock = ClockAtStart

\* One request alone, under the default image format.
Init ==
    /\ RequestInit
    /\ image_format = DefaultImageFormat
    /\ other = NoOther

\* The request ends with the error response for exception e.
Fail(e) ==
    /\ raised' = e
    /\ response' = EndpointError(e)
    /\ pc' = "done"

\* process_pdf lines 51-54: the file type check.
CheckFilename ==
    /\ pc = "check_filename"
    /\ IF EndsWith(Lower(filename), DotPdf)
           THEN pc' = "read_upload" /\ UNCHANGED outVars
           ELSE Fail(HTTPException(400, "Only PDF files are allowed"))
    /\ UNCHANGED <<inputVars, readVars, opens, open_docs, extractVars, batchVars>>

\* _read_file_async lines 137-144: the upload is copied to a temporary file.
ReadUpload ==
    /\ pc = "read_upload"
    /\ tmp_files' = tmp_files + 1
    /\ pc' = "read_back"
    /\ UNCHANGED <<inputVars, content, opens, open_docs, extractVars, batchVars, outVars>>

\* _read_file_async lines 147-157: the content is read back, the file unlinked.
ReadBack ==
    /\ pc = "read_back"
    /\ content' = upload
    /\ tmp_files' = tmp_files - 1
    /\ pc' = "validate"
    /\ UNCHANGED <<inputVars, opens, open_docs, extractVars, batchVars, outVars>>

\* _read_file_async: writing the temporary file or reading it back raises
\* OSError; the finally clause (lines 152-157) unlinks the file and the
\* exception passes through process_pdf_stream (lines 130-132) to process_pdf.
ReadFails ==
    /\ pc = "read_back"
    /\ tmp_files' = tmp_files - 1
    /\ Fail(Exc("OSError", "No space left on device"))
    /\ UNCHANGED <<inputVars, content, opens, open_docs, extractVars, batchVars>>

\* process_pdf_stream line 125: validate_pdf(content).
Validate ==
    /\ pc = "validate"
    /\ LET v == ValidatePdf(content) IN
        /\ opens' = opens + v.opens
        /\ open_docs' = open_docs + v.left_open
        /\ IF v.exc # NoExc
               THEN Fail(v.exc)
               ELSE pc' = "extract" /\ UNCHANGED outVars
    /\ UNCHANGED <<inputVars, readVars, extractVars, batchVars>>

\* extract_pages_as_images lines 47-51: the document is opened again.
ExtractOpen ==
    /\ pc = "extract"
    /\ opens' = opens + 1
    /\ open_docs' = open_docs + 1
    /\ page_num' = 0
    /\ pages_local' = <<>>
    /\ pc' = "render"
    /\ UNCHANGED <<inputVars, readVars, renders, pages_data, batchVars, outVars>>

\* One iteration of the loop of extract_pages_as_images (lines 54-99); a
\* rendering failure leaves through the except clause (lines 112-114).
\* Fault variant of RenderPage: a page that fails to render is skipped and
\* the loop goes on with the next one.
RenderPageSkipBad ==
    /\ pc = "render"
    /\ page_num < PageCount(content)
    /\ renders' = renders + 1
    /\ pages_local' = IF RenderFails(content, page_num)
                          THEN pages_local
                          ELSE Append(pages_local,
                                      PageRecord(page_num,
                                                 SaveImage(Upper(image_format))))
    /\ page_num' = page_num + 1
    /\ UNCHANGED <<pc, outVars>>
    /\ UNCHANGED <<inputVars, readVars, opens, open_docs, pages_data, batchVars>>

RenderPage ==
    /\ pc = "render"
    /\ page_num < PageCount(content)
    /\ renders' = renders + 1
    /\ IF RenderFails(content, page_num)
           THEN /\ Fail(ExtractError(Exc("RuntimeError", "cannot render page")))
                /\ UNCHANGED <<page_num, pages_local>>
           ELSE /\ pages_local' = Append(pages_local,
                                      PageRecord(page_num,
                                                 SaveImage(Upper(image_format))))
                /\ page_num' = page_num + 1
                /\ UNCHANGED <<pc, outVars>>
    /\ UNCHANGED <<inputVars, readVars, opens, open_docs, pages_data, batchVars>>

\* extract_pages_as_images lines 101-110 returns to process_pdf, which
\* rejects an empty list (lines 64-65) and otherwise calls process_batch,
\* which creates one task per page and awaits gather (lines 136-142).
ExtractReturn ==
    /\ pc = "render"
    /\ page_num = PageCount(content)
    /\ open_docs' = open_docs - 1
    /\ pages_data' = pages_local
    /\ IF pages_local = <<>>
           THEN /\ Fail(HTTPException(400, "No pages found in PDF file"))
                /\ UNCHANGED tasks
           ELSE /\ tasks' = [i \in 1..Len(pages_local) |-> NewTask]
                /\ pc' = "batch"
                /\ UNCHANGED outVars
    /\ UNCHANGED <<inputVars, readVars, opens, renders, page_num, pages_local,
                   sem_value, waiters, completed, api_results>>

\* A task starts running process_image: it enters `async with
\* self.semaphore` (line 30) and, with a permit, sends its request.
\* The event loop starts the tasks in the order gather was given them.
StartTask(i) ==
    /\ pc = "batch"
    /\ tasks[i].pc = "created"
    /\ \A j \in 1..(i - 1) : tasks[j].pc # "created"
    /\ IF Locked(sem_value, waiters)
           THEN /\ waiters' = Append(waiters, i)
                /\ tasks' = [tasks EXCEPT ![i].pc = "waiting"]
                /\ UNCHANGED sem_value
           ELSE /\ sem_value' = sem_value - 1
                /\ tasks' = [tasks EXCEPT ![i].pc = "inflight"]
                /\ UNCHANGED waiters
    /\ UNCHANGED <<pc, inputVars, readVars, opens, open_docs, extractVars,
                   completed, api_results, outVars>>

\* The call of task i ends with service outcome o: process_image returns or
\* raises, the semaphore is released and the task is done.
FinishTask(i, o) ==
    /\ pc = "batch"
    /\ tasks[i].pc = "inflight"
    /\ LET r == ProcessSinglePage(pages_data[i], o)
           woken == WokenAfterExit(sem_value, waiters, r.is_exception)
       IN
        /\ tasks' = [j \in 1..Len(tasks) |->
                        IF j = i THEN [pc |-> "done", outcome |-> o, result |-> r]
                        ELSE IF j \in woken THEN [tasks[j] EXCEPT !.pc = "inflight"]
                        ELSE tasks[j]]
        /\ sem_value' = ValueAfterExit(sem_value, waiters, r.is_exception)
        /\ waiters' = IF woken = {} THEN waiters ELSE Tail(waiters)
    /\ completed' = Append(completed, i)
    /\ UNCHANGED <<pc, inputVars, readVars, opens, open_docs, extractVars,
                   api_results, outVars>>

\* gather returns once every task is done; process_batch builds its list
\* (lines 144-159) and returns to process_pdf.
BatchReturn ==
    /\ pc = "batch"
    /\ \A i \in 1..Len(tasks) : tasks[i].pc = "done"
    /\ LET b == ProcessBatch(pages_data, tasks, completed) IN
        /\ api_results' = b.ret
        /\ IF b.exc # NoExc
               THEN Fail(b.exc)
               ELSE pc' = "respond" /\ UNCHANGED outVars
    /\ UNCHANGED <<inputVars, readVars, opens, open_docs, extractVars,
                   sem_value, waiters, tasks, completed>>

\* process_pdf lines 71-115: the response is assembled and returned.
Respond ==
    /\ pc = "respond"
    /\ response' = BuildResponse(pages_data, api_results)
    /\ pc' = "done"
    /\ UNCHANGED <<raised, inputVars, readVars, opens, open_docs, extractVars, batchVars>>

Next ==
    \/ CheckFilename
    \/ ReadUpload
    \/ ReadBack
    \/ ReadFails
    \/ Validate
    \/ ExtractOpen
    \/ RenderPage
    \/ ExtractReturn
    \/ \E i \in 1..Len(tasks) : StartTask(i)
    \/ \E i \in 1..Len(tasks) : \E o \in ServiceOutcomes : FinishTask(i, o)
    \/ BatchReturn
    \/ Respond

Spec == Init /\ [][Next]_vars

\* Init for an upload that passes every check before process_batch: a
\* lower-case .pdf name, the largest accepted size, pages that all render.
AcceptedInit ==
    /\ Init
    /\ filename = <<"r", ".", "p", "d", "f">>
    /\ upload.len = max_file_size
    /\ upload.readable
    /\ upload.page_count >= 1
    /\ upload.bad_page = 0

\* get_openai_client: the OpenAIClient (and with it the semaphore) that
\* request r is given, numbered by the request it was built for.
\* Fault variant of GetOpenAIClient: one client object serves every request.
GetOpenAIClientShared(r) == 1

GetOpenAIClient(r) == r

\* The second request uses a semaphore of its own.
OwnSemaphore == GetOpenAIClient(2) # GetOpenAIClient(1)

\* Tasks of the second request that hold a permit.
OtherInFlight == {j \in 1..Len(other.tasks) : other.tasks[j] = "inflight"}

\* The second request has reached process_batch with m pages: its client
\* was built by OpenAIClient.__init__ and its tasks are created.
OtherRequest(m) ==
    [sem_value |-> max_concurrent_requests,
     waiters |-> <<>>,
     tasks |-> [j \in 1..m |-> "created"]]

\* Two requests: this one with an upload that reaches process_batch, and a
\* second one whose process_batch runs at the same time.
TwoInit ==
    /\ RequestInit
    /\ filename = <<"r", ".", "p", "d", "f">>
    /\ upload.len = max_file_size
    /\ upload.readable
    /\ upload.page_count >= 1
    /\ upload.bad_page = 0
    /\ image_format = DefaultImageFormat
    /\ other \in {OtherRequest(m) : m \in 1..MaxPages}

\* A task of the second request enters `async with self.semaphore`.
OtherStart(j) ==
    /\ other.tasks[j] = "created"
    /\ \A k \in 1..(j - 1) : other.tasks[k] # "created"
    /\ LET value == IF OwnSemaphore THEN other.sem_value ELSE sem_value
           ws == IF OwnSemaphore THEN other.waiters ELSE waiters \o other.waiters
       IN IF Locked(value, ws)
              THEN /\ other' = [other EXCEPT !.waiters = Append(@, j),
                                             !.tasks[j] = "waiting"]
                   /\ UNCHANGED sem_value
              ELSE IF OwnSemaphore
                  THEN /\ other' = [other EXCEPT !.sem_value = @ - 1,
                                                 !.tasks[j] = "inflight"]
                       /\ UNCHANGED sem_value
                  ELSE /\ other' = [other EXCEPT !.tasks[j] = "inflight"]
                       /\ sem_value' = sem_value - 1
    /\ UNCHANGED <<pc, filename, upload, max_concurrent_requests, image_format, clock,
                   readVars, opens, open_docs, extractVars, waiters, tasks,
                   completed, api_results, outVars>>

\* The call of a task of the second request ends, by return or by exception.
OtherFinish(j, failed) ==
    /\ other.tasks[j] = "inflight"
    /\ LET value == IF OwnSemaphore THEN other.sem_value ELSE sem_value
           woken == WokenAfterExit(value, other.waiters, failed)
           after == ValueAfterExit(value, other.waiters, failed)
       IN /\ other' = [sem_value |-> IF OwnSemaphore THEN after ELSE other.sem_value,
                       waiters |-> IF woken = {} THEN other.waiters
                                                 ELSE Tail(other.waiters),
                       tasks |-> [k \in 1..Len(other.tasks) |->
                                     IF k = j THEN "done"
                                     ELSE IF k \in woken THEN "inflight"
                                     ELSE other.tasks[k]]]
          /\ sem_value' = IF OwnSemaphore THEN sem_value ELSE after
    /\ UNCHANGED <<pc, filename, upload, max_concurrent_requests, image_format, clock,
                   readVars, opens, open_docs, extractVars, waiters, tasks,
                   completed, api_results, outVars>>

\* The outcomes drawn for this request's calls while two requests run.
TwoOutcomes ==
    { [kind |-> "response", status |-> 200, form |-> "object", json |-> CompletionBody],
      [kind |-> "timeout"] }

TwoNext ==
    \/ CheckFilename
    \/ ReadUpload
    \/ ReadBack
    \/ Validate
    \/ ExtractOpen
    \/ RenderPage
    \/ ExtractReturn
    \/ \E i \in 1..Len(tasks) : StartTask(i)
    \/ \E i \in 1..Len(tasks) : \E o \in TwoOutcomes : FinishTask(i, o)
    \/ \E j \in 1..Len(other.tasks) : OtherStart(j)
    \/ \E j \in 1..Len(other.tasks) : \E failed \in BOOLEAN : OtherFinish(j, failed)

TwoSpec == TwoInit /\ [][TwoNext]_vars

\* One request with an upload that reaches process_batch, under any of the
\* image formats.
FormatInit ==
    /\ RequestInit
    /\ filename = <<"r", ".", "p", "d", "f">>
    /\ upload.len = max_file_size
    /\ upload.readable
    /\ upload.page_count >= 1
    /\ upload.bad_page = 0
    /\ image_format \in ImageFormats
    /\ other = NoOther

FormatSpec == FormatInit /\ [][Next]_vars

\* ------------------------------------------------- process_batch with time
Max(a, b) == IF a >= b THEN a ELSE b

Min(a, b) == IF a <= b THEN a ELSE b

\* One request whose upload is a well-formed PDF of up to TimedMaxPages
\* pages.
TimedInit ==
    /\ pc = "check_filename"
    /\ filename = <<"r", ".", "p", "d", "f">>
    /\ upload \in { [len |-> max_file_size, readable |-> TRUE,
                     page_count |-> p, bad_page |-> 0] : p \in 1..TimedMaxPages }
    /\ max_concurrent_requests \in 1..MaxConcurrent
    /\ tmp_files = 0
    /\ content = NoContent
    /\ opens = 0
    /\ open_docs = 0
    /\ renders = 0
    /\ page_num = 0
    /\ pages_local = <<>>
    /\ pages_data = <<>>
    /\ sem_value = max_concurrent_requests
    /\ waiters = <<>>
    /\ tasks = <<>>
    /\ completed = <<>>
    /\ api_results = <<>>
    /\ response = NoResponse
    /\ raised = NoExc
    /\ image_format = DefaultImageFormat
    /\ other = NoOther
    /\ clock = ClockAtStart

\* The answers of the service when every call takes Latency: a completion,
\* or an error status.
TimedOutcomes ==
    { [kind |-> "response", status |-> 200, form |-> "object", json |-> CompletionBody],
      [kind |-> "response", status |-> 500, form |-> "object", json |-> ErrorBody] }

\* StartTask with the clock: a task that gets a permit sends its request
\* (start_time = time.time(), line 31), the answer is due Latency later.
TimedStart(i) ==
    /\ pc = "batch"
    /\ tasks[i].pc = "created"
    /\ \A j \in 1..(i - 1) : tasks[j].pc # "created"
    /\ IF Locked(sem_value, waiters)
           THEN /\ waiters' = Append(waiters, i)
                /\ tasks' = [tasks EXCEPT ![i].pc = "waiting"]
                /\ UNCHANGED <<sem_value, clock>>
           ELSE /\ sem_value' = sem_value - 1
                /\ tasks' = [tasks EXCEPT ![i].pc = "inflight"]
                /\ clock' = [clock EXCEPT
                                !.due = @ \cup {<<i, clock.now + Latency>>},
                                !.peak = Max(@, Cardinality(InFlight) + 1)]
                /\ UNCHANGED waiters
    /\ UNCHANGED <<pc, filename, upload, max_concurrent_requests, image_format,
                   other, readVars, opens, open_docs, extractVars, completed,
                   api_results, outVars>>

\* FinishTask with the clock: the answer o to the call of task i arrives
\* when it is due; the waiter that is handed the permit sends its request
\* at that moment.
TimedFinish(i, o) ==
    /\ pc = "batch"
    /\ tasks[i].pc = "inflight"
    /\ <<i, clock.now>> \in clock.due
    /\ LET r == ProcessSinglePage(pages_data[i], o)
           woken == WokenAfterExit(sem_value, waiters, r.is_exception)
       IN
        /\ tasks' = [j \in 1..Len(tasks) |->
                        IF j = i THEN [pc |-> "done", outcome |-> o, result |-> r]
                        ELSE IF j \in woken THEN [tasks[j] EXCEPT !.pc = "inflight"]
                        ELSE tasks[j]]
        /\ sem_value' = ValueAfterExit(sem_value, waiters, r.is_exception)
        /\ waiters' = IF woken = {} THEN waiters ELSE Tail(waiters)
        /\ clock' = [clock EXCEPT
                        !.due = (@ \ {<<i, clock.now>>})
                                    \cup {<<w, clock.now + Latency>> : w \in woken},
                        !.peak = Max(@, Cardinality(InFlight \ {i}) + Cardinality(woken))]
    /\ completed' = Append(completed, i)
    /\ UNCHANGED <<pc, filename, upload, max_concurrent_requests, image_format,
                   other, readVars, opens, open_docs, extractVars, api_results,
                   outVars>>

\* The event loop has nothing ready to run: every task has started and no
\* answer that is due is unhandled, while calls are still in flight.
LoopIdle ==
    /\ pc = "batch"
    /\ \A i \in 1..Len(tasks) : tasks[i].pc # "created"
    /\ clock.due # {}
    /\ \A d \in clock.due : d[2] > clock.now

\* The event loop blocks until the next answer: one time unit passes.
Tick ==
    /\ LoopIdle
    /\ clock' = [clock EXCEPT !.now = @ + 1]
    /\ UNCHANGED <<pc, filename, upload, max_concurrent_requests, image_format,
                   other, readVars, opens, open_docs, extractVars, batchVars,
                   outVars>>

TimedNext ==
    \/ CheckFilename
    \/ ReadUpload
    \/ ReadBack
    \/ Validate
    \/ ExtractOpen
    \/ RenderPage
    \/ ExtractReturn
    \/ \E i \in 1..Len(tasks) : TimedStart(i)
    \/ \E i \in 1..Len(tasks) : \E o \in TimedOutcomes : TimedFinish(i, o)
    \/ Tick
    \/ BatchReturn
    \/ Respond

TimedSpec == TimedInit /\ [][TimedNext]_vars

\* A step of one page task of process_batch.
TaskStep ==
    \E i \in 1..Len(tasks) :
        StartTask(i) \/ \E o \in ServiceOutcomes : FinishTask(i, o)

\* The event loop runs every task that can run, every call to the service
\* ends (with a response, a timeout or an error), and a coroutine whose
\* await has completed is resumed.
FairSpec ==
    /\ AcceptedInit
    /\ [][Next]_vars
    /\ WF_vars(TaskStep)
    /\ WF_vars(BatchReturn)

\* ------------------------------------------------------------------ claims
\* A page's own call succeeds: status 200 with a body that is a JSON object.
OwnCallSucceeds(o) == o.kind = "response" /\ o.status = 200 /\ o.form = "object"

\* The request went through process_batch.
Dispatched == tasks # <<>>

Reported == response.kind = "report"

FailedTasks == {i \in 1..Len(tasks) : tasks[i].result.is_exception}

FailingResults == {k \in 1..Len(response.results) : response.results[k].error # None}

\* Two tasks completed in the opposite of their page order.
OutOfOrderCompletion ==
    \E a, b \in 1..Len(completed) : a < b /\ completed[a] > completed[b]

SizeMessage ==
    "File size exceeds maximum allowed size of " \o ToString(max_file_size) \o " bytes"

\* C1: in every state of process_batch, the number of page calls that hold
\* the semaphore is at most max_concurrent_requests.
C1_InFlightBounded ==
    /\ Cardinality(InFlight) <= max_concurrent_requests
    /\ sem_value = max_concurrent_requests - Cardinality(InFlight)

\* C1 witness: the limit is reached with a page queued behind it, after an
\* earlier call has already finished.
C1_Witness ==
    /\ pc = "batch"
    /\ Cardinality(InFlight) = max_concurrent_requests
    /\ waiters # <<>>
    /\ completed # <<>>

\* C2: a failing page changes no other page's outcome: a queued page is never
\* left without a permit holder that will admit it, every finished page
\* failed exactly when its own call failed, and the report shows as a success
\* every page whose own call succeeded, with that call's body.
C2_FailureIsolation ==
    /\ \A i \in 1..Len(tasks) : tasks[i].pc = "waiting" => InFlight # {}
    /\ \A i \in 1..Len(tasks) :
          tasks[i].pc = "done" =>
              (tasks[i].result.is_exception <=> ~OwnCallSucceeds(tasks[i].outcome))
    /\ (pc = "done" /\ Dispatched) =>
          /\ Reported
          /\ \A i \in 1..Len(tasks) :
                OwnCallSucceeds(tasks[i].outcome) =>
                    /\ response.results[i].error = None
                    /\ response.results[i].processed_output = tasks[i].outcome.json

\* C2 witness: three pages behind a limit of one, page 2 times out while
\* page 3 is queued, and pages 1 and 3 are reported as successes.
C2_Witness ==
    /\ Reported
    /\ max_concurrent_requests = 1
    /\ Len(tasks) = 3
    /\ tasks[2].outcome.kind = "timeout"
    /\ response.results[1].error = None
    /\ response.results[3].error = None
    /\ response.results[2].error # None

\* C3: the results of a report are in page order, page_number 1, 2, ...,
\* whatever the order the calls completed in.
C3_ResultsInPageOrder ==
    Reported =>
        \A k \in 1..Len(response.results) : response.results[k].page_number = k

\* C3 witness: a report built after a later page's call completed first.
C3_Witness ==
    /\ Reported
    /\ OutOfOrderCompletion
    /\ completed[1] = Len(tasks)

\* C4: success is true exactly when no page result has an error, which is
\* exactly when no page's call failed; when success is false, errors has one
\* entry per failing page.
C4_SuccessIffNoFailure ==
    Reported =>
        /\ response.success <=> (FailingResults = {})
        /\ response.success <=> (FailedTasks = {})
        /\ ~response.success =>
              /\ ~response.errors.is_none
              /\ Len(response.errors.list) = Cardinality(FailingResults)
              /\ Len(response.errors.list) = Cardinality(FailedTasks)

\* C4 witness: a report with success false, two failing pages and one success.
C4_Witness ==
    /\ Reported
    /\ ~response.success
    /\ Cardinality(FailedTasks) = 2
    /\ Len(tasks) = 3

\* C5: a report for a document of P pages has P results and total_pages P,
\* every page index 1..P is in exactly one result, and each result carries
\* the index and the outcome of the page it was dispatched for.
C5_OneResultPerPage ==
    Reported =>
        /\ Len(response.results) = PageCount(upload)
        /\ response.total_pages = PageCount(upload)
        /\ \A p \in 1..PageCount(upload) :
              Cardinality({k \in 1..Len(response.results) :
                              response.results[k].page_number = p}) = 1
        /\ \A k \in 1..Len(response.results) :
              /\ response.results[k].page_number = pages_data[k].page_num
              /\ (response.results[k].error # None) <=> tasks[k].result.is_exception
              /\ tasks[k].result.is_exception =>
                    response.results[k].error = tasks[k].result.exc.message

\* C5 witness: a report over the largest document with successes and failures.
C5_Witness ==
    /\ Reported
    /\ Len(response.results) = MaxPages
    /\ FailedTasks # {}
    /\ FailedTasks # 1..Len(tasks)

\* C6: processed_pages is the number of results that are successes, so it
\* and the number of failing results add up to total_pages.
C6_ProcessedCount ==
    Reported =>
        /\ response.processed_pages =
              Cardinality({k \in 1..Len(response.results) :
                              response.results[k].error = None})
        /\ response.processed_pages + Cardinality(FailingResults) = response.total_pages
        /\ response.processed_pages = Len(tasks) - Cardinality(FailedTasks)

\* C6 witness: a report where some but not all pages were processed.
C6_Witness ==
    /\ Reported
    /\ response.processed_pages > 0
    /\ response.processed_pages < response.total_pages

\* C7: extract_pages_as_images numbers the page records 1, 2, ... as it
\* builds the list, and the list it returns has one record per page.
C7_PagesIndexed ==
    /\ \A k \in 1..Len(pages_local) : pages_local[k].page_num = k
    /\ pc \in {"batch", "respond"} =>
          /\ Len(pages_data) = PageCount(content)
          /\ PageCount(content) >= 1
          /\ \A k \in 1..Len(pages_data) : pages_data[k].page_num = k

\* C7 witness: extraction has returned the records of a multi-page document.
C7_Witness ==
    /\ pc = "batch"
    /\ Len(pages_data) = PageCount(content)
    /\ Len(pages_data) >= 2

C9_EmptyDocumentRejected ==
    (content.readable /\ content.page_count = 0 /\ content.len <= max_file_size) =>
        /\ pc \in {"validate", "done"}
        /\ renders = 0 /\ pages_data = <<>> /\ ~Dispatched
        /\ ~Reported
        /\ pc = "done" =>
              /\ raised.cls = "InvalidFileError"
              /\ opens = 1
              /\ response.kind = "http_error"

\* C9 witness: the request for a zero-page document has ended.
C9_Witness ==
    /\ pc = "done"
    /\ content.readable
    /\ content.page_count = 0
    /\ content.len <= max_file_size
    /\ raised # NoExc

\* C10: process_batch returns, without raising, a failure entry for every
\* page whose call failed, and the request then ends with a report.
C10_FailuresBecomeResults ==
    /\ (Dispatched /\ pc \in {"respond", "done"}) =>
          /\ raised = NoExc
          /\ Len(api_results) = Len(tasks)
          /\ \A i \in 1..Len(tasks) :
                ~OwnCallSucceeds(tasks[i].outcome) =>
                    /\ IsFailure(api_results[i])
                    /\ api_results[i].page_num = pages_data[i].page_num
                    /\ api_results[i].api_response = EmptyDict
    /\ (Dispatched /\ pc = "done") => Reported

\* C10 witness: a report after every page failed, by a timeout, by a
\* transport error and by a response that was not a success.
C10_Witness ==
    /\ Reported
    /\ FailedTasks = 1..Len(tasks)
    /\ \E i \in 1..Len(tasks) : tasks[i].outcome.kind = "timeout"
    /\ \E i \in 1..Len(tasks) : tasks[i].outcome.kind = "client_error"
    /\ \E i \in 1..Len(tasks) : tasks[i].outcome.kind = "response"

\* The upload's name is accepted by the file type check.
NameIsPdf == EndsWith(Lower(filename), DotPdf)

\* C11: an upload whose name does not end in ".pdf" in any letter case is
\* answered with status 400 and detail "Only PDF files are allowed", with no
\* read, extraction or dispatch before it.
C11_NonPdfRejectedWith400 ==
    (pc = "done" /\ ~NameIsPdf) =>
        /\ opens = 0 /\ renders = 0 /\ ~Dispatched
        /\ response.kind = "http_error"
        /\ response.status_code = 400
        /\ ~response.detail.is_dict
        /\ response.detail.text = "Only PDF files are allowed"

\* The accepted upload has a page whose rendering fails.
HasBadPage ==
    content.readable /\ content.len <= max_file_size /\ content.bad_page >= 1

ExtractFailureMessage == "Failed to extract pages from PDF: " \o "cannot render page"

\* C12 as stated: a rendering failure ends the request with the
\* invalid-document error (InvalidFileError), no page list and no dispatch.
C12_RenderFailureIsInvalidFile ==
    HasBadPage =>
        /\ pages_data = <<>> /\ ~Dispatched /\ ~Reported
        /\ pc = "done" => IsInstance(raised, "InvalidFileError")

\* C12 as amended: a rendering failure stops the loop at the first failing
\* page and ends the request with the base PDFProcessingError "Failed to
\* extract pages from PDF: ..." (answered with status 400); the pages
\* rendered before it are not returned and nothing is dispatched.
C12_RenderFailureAborts ==
    HasBadPage =>
        /\ pages_data = <<>> /\ ~Dispatched /\ ~Reported
        /\ pc \notin {"batch", "respond"}
        /\ pc = "done" =>
              /\ raised.cls = "PDFProcessingError"
              /\ raised.message = ExtractFailureMessage
              /\ renders = content.bad_page
              /\ Len(pages_local) = content.bad_page - 1
              /\ response.kind = "http_error"
              /\ response.status_code = 400

\* C12 witness: the request ended on a failure of a later page, after
\* earlier pages had been rendered.
C12_Witness ==
    /\ pc = "done"
    /\ HasBadPage
    /\ content.bad_page >= 2
    /\ pages_local # <<>>
    /\ raised # NoExc

InternalErrorDetail == "Internal server error occurred during processing"

\* C13: an exception caught by process_pdf that is not a PDFProcessingError
\* is answered with status 500 and the fixed detail, which holds no text of
\* the exception; a PDFProcessingError is answered with status 400 and its
\* message.
C13_ErrorsMappedToStatus ==
    (pc = "done" /\ raised # NoExc) =>
        /\ response.kind = "http_error"
        /\ IF IsInstance(raised, "PDFProcessingError")
               THEN /\ response.status_code = 400
                    /\ response.detail.is_dict
                    /\ response.detail.error = raised.message
               ELSE /\ response.status_code = 500
                    /\ ~response.detail.is_dict
                    /\ response.detail.text = InternalErrorDetail
                    /\ response.detail.text # raised.message

\* C13 witness: an I/O fault while the upload was read has been answered.
C13_Witness ==
    /\ pc = "done"
    /\ raised.cls = "OSError"
    /\ response.kind = "http_error"

\* C14: with max_concurrent_requests >= 1 and every call ending, once
\* process_batch has started every page task finishes and process_batch
\* returns one entry per page; a task that leaves process_image, by return
\* or by exception, gives its permit to the first waiter or back to the
\* counter.
C14_BatchTerminates ==
    /\ (pc = "batch") ~>
          (/\ pc = "respond"
           /\ \A i \in 1..Len(tasks) : tasks[i].pc = "done"
           /\ Len(api_results) = Len(tasks))
    /\ [][\A i \in 1..Len(tasks) :
             (pc = "batch" /\ tasks[i].pc = "inflight" /\ tasks'[i].pc = "done") =>
                 IF waiters = <<>>
                     THEN sem_value' = sem_value + 1
                     ELSE /\ tasks'[Head(waiters)].pc = "inflight"
                          /\ waiters' = Tail(waiters)]_vars

\* C14 witness: process_batch has returned after the first page failed while
\* the other pages were queued behind a limit of one.
C14_Witness ==
    /\ pc = "respond"
    /\ max_concurrent_requests = 1
    /\ Len(tasks) >= 2
    /\ tasks[1].result.is_exception
    /\ completed[1] = 1

\* C15: when the request has ended, by a report or by an error, no fitz
\* document opened by PDFProcessor is still open and no temporary file it
\* created is left; the temporary file is gone as soon as _read_file_async
\* has returned or raised.
C15_ResourcesReleased ==
    /\ pc \notin {"read_back"} => tmp_files = 0
    /\ pc = "done" => open_docs = 0

\* C16: two requests in process_batch at the same time are each bounded by
\* max_concurrent_requests on their own: each semaphore counts the calls of
\* its own request only, and a task waits only when its own request is at
\* the limit.
C16_LimitPerRequest ==
    /\ Cardinality(InFlight) <= max_concurrent_requests
    /\ Cardinality(OtherInFlight) <= max_concurrent_requests
    /\ sem_value = max_concurrent_requests - Cardinality(InFlight)
    /\ other.sem_value = max_concurrent_requests - Cardinality(OtherInFlight)
    /\ \A i \in 1..Len(tasks) :
          tasks[i].pc = "waiting" => Cardinality(InFlight) = max_concurrent_requests
    /\ \A j \in 1..Len(other.tasks) :
          other.tasks[j] = "waiting" =>
              Cardinality(OtherInFlight) = max_concurrent_requests

\* C16 witness: both requests are at the limit at once, so more calls are
\* in flight than one limit allows, and a task of each is queued.
C16_Witness ==
    /\ pc = "batch"
    /\ Cardinality(InFlight) = max_concurrent_requests
    /\ Cardinality(OtherInFlight) = max_concurrent_requests
    /\ waiters # <<>>
    /\ other.waiters # <<>>

\* The service answered task i with a non-success status and a JSON object
\* that has an "error" entry.
ServiceErrorAnswer(i) ==
    /\ tasks[i].outcome.kind = "response"
    /\ tasks[i].outcome.status # 200
    /\ tasks[i].outcome.form = "object"
    /\ \E kv \in tasks[i].outcome.json : kv[1] = "error"

\* C17: when the service answers a page call with a non-success status and
\* a body containing error.message, the error text of that page's result is
\* the service's message (bare, or behind the service-error prefix
\* "OpenAI API request failed: "), never reported as an unexpected error.
C17_ServiceMessageVerbatim ==
    Reported =>
        \A i \in 1..Len(tasks) :
            ServiceErrorAnswer(i) =>
                response.results[i].error \in
                    { ErrorMessageOf(tasks[i].outcome.json),
                      "OpenAI API request failed: "
                          \o ErrorMessageOf(tasks[i].outcome.json) }

\* C18 as stated: in every page result exactly one of processed_output and
\* error is populated, and the result is a failure exactly when the page's
\* dispatch failed.
C18_ExactlyOnePopulated ==
    Reported =>
        \A k \in 1..Len(response.results) :
            /\ (response.results[k].error # None)
                   # (response.results[k].processed_output # EmptyDict)
            /\ (response.results[k].error # None) = tasks[k].result.is_exception

\* C18: a result is a failure exactly when the page's dispatch failed; a
\* failure has a non-empty error message and an empty processed_output; a
\* success has no error and carries the body the service returned, which is
\* empty only when the service answered 200 with an empty JSON object.
C18_ResultShape ==
    Reported =>
        \A k \in 1..Len(response.results) :
            /\ (response.results[k].error # None) = tasks[k].result.is_exception
            /\ response.results[k].error # None =>
                  /\ response.results[k].error # ""
                  /\ response.results[k].processed_output = EmptyDict
            /\ response.results[k].error = None =>
                  /\ OwnCallSucceeds(tasks[k].outcome)
                  /\ response.results[k].processed_output = tasks[k].outcome.json

\* C18 witness: one report holds a success with a body, a success whose
\* body is the empty object, and a failure.
C18_Witness ==
    /\ Reported
    /\ \E k \in 1..Len(response.results) :
          /\ response.results[k].error = None
          /\ response.results[k].processed_output = CompletionBody
    /\ \E k \in 1..Len(response.results) :
          /\ response.results[k].error = None
          /\ response.results[k].processed_output = EmptyDict
    /\ \E k \in 1..Len(response.results) :
          /\ response.results[k].error # None
          /\ response.results[k].processed_output = EmptyDict

\* The index of the n-th failing page of the report, counting upwards.
NthFailing(n) ==
    CHOOSE k \in FailingResults :
        Cardinality({j \in FailingResults : j <= k}) = n

\* C19: the errors list of the response holds one string
\* "Page {index}: {message}" per failing page, in increasing page-index
\* order, and is null rather than an empty list when no page failed.
C19_ErrorsList ==
    Reported =>
        IF FailingResults = {}
            THEN response.errors = NoneList
            ELSE /\ ~response.errors.is_none
                 /\ Len(response.errors.list) = Cardinality(FailingResults)
                 /\ \A n \in 1..Cardinality(FailingResults) :
                       response.errors.list[n] =
                           "Page " \o ToString(NthFailing(n)) \o ": "
                               \o response.results[NthFailing(n)].error

\* C19 witness: pages 1 and 3 failed with different messages, page 2 did
\* not, and the page 3 call completed before the page 1 call.
C19_Witness ==
    /\ Reported
    /\ FailingResults = {1, 3}
    /\ response.results[1].error # response.results[3].error
    /\ \E a, b \in 1..Len(completed) :
          a < b /\ completed[a] = 3 /\ completed[b] = 1

\* The media type of an image written by PIL under format name fmt.
MimeOf(fmt) ==
    CASE fmt = <<"P", "N", "G">> -> "image/png"
      [] fmt = <<"J", "P", "E", "G">> -> "image/jpeg"
      [] OTHER -> "application/octet-stream"

\* C20: the image format named in the data URL of every completion request
\* sent is the format the page was encoded in, for every configured format.
C20_DataUrlNamesEncoding ==
    \A i \in 1..Len(tasks) :
        tasks[i].pc \in {"inflight", "done"} =>
            ImageUrl(pages_data[i].image).mime = MimeOf(pages_data[i].image.format)

\* The call of task i ended with a non-success response, a timeout or a
\* transport error.
CallFailed(i) ==
    \/ tasks[i].outcome.kind \in {"timeout", "client_error"}
    \/ /\ tasks[i].outcome.kind = "response"
       /\ tasks[i].outcome.status # 200

\* C21: the failure result of a page whose call got a non-success response,
\* timed out or failed at the transport level carries a human-readable
\* message and, in its metadata, the elapsed latency of that call.
C21_FailureCarriesLatency ==
    Reported =>
        \A k \in 1..Len(response.results) :
            CallFailed(k) =>
                /\ response.results[k].error \notin {None, ""}
                /\ response.results[k].metadata.additional_data
                       = "api_processing_time"
                /\ response.results[k].metadata.processing_time = "render+api"

\* ceil(m / n) for n >= 1.
Ceil(m, n) == (m + n - 1) \div n

\* C22: with limit N, M pages and every call taking Latency, a waiting
\* page is admitted as soon as a slot is free (time never passes while a
\* page waits and a slot is free), no more than min(N, M) calls are in
\* flight together, and process_batch returns after ceil(M / N) latencies
\* with a peak of exactly min(N, M) calls in flight.
C22_BatchMakespan ==
    /\ clock.peak <= Min(max_concurrent_requests, Len(tasks))
    /\ Cardinality(InFlight) <= clock.peak
    /\ LoopIdle /\ waiters # <<>> =>
          Cardinality(InFlight) = max_concurrent_requests
    /\ pc = "respond" =>
          /\ clock.now = Ceil(Len(tasks), max_concurrent_requests) * Latency
          /\ clock.peak = Min(max_concurrent_requests, Len(tasks))

\* C22 witness: limit 2 and 5 pages, process_batch has returned after 3
\* latencies with a peak of 2 calls in flight.
C22_Witness ==
    /\ pc = "respond"
    /\ max_concurrent_requests = 2
    /\ Len(tasks) = 5
    /\ clock.now = 3 * Latency
    /\ clock.peak = 2
====
